---------------------------- MODULE Spec2Model ----------------------------
(***************************************************************************)
(* Model of the Concatenator high-level analyzer (src/concatenator.py).   *)
(*                                                                         *)
(* Python strings are modelled as sequences of code points, so that chr,  *)
(* format(value, '02X') and hex(value) are computed, not assumed.          *)
(* Times are integers in microseconds.  A dict is a function whose DOMAIN  *)
(* is its key set.                                                         *)
(***************************************************************************)
EXTENDS Integers, Sequences, FiniteSets, TLC

VARIABLES
    temp_frame,        \* self.temp_frame: None or the frame being accumulated
    delimiter,         \* self.delimiter
    display_format,    \* self.display_format
    packet_timeout,    \* self.packet_timeout, the setting, in microseconds
    out,               \* the frames decode has returned, in order
    events,            \* the frames decode has been called with, in order
    alphabet,          \* the byte values the input analyzer sends in data frames
    addresses,         \* the byte values the input analyzer sends in address frames
    others,            \* the types of the frames it sends that decode has no branch for
    before,            \* self.temp_frame as the latest call of decode found it
    returned,          \* what the latest call of decode returned
    triggers           \* how many of the events were flush-triggering

vars ==
    <<temp_frame, delimiter, display_format, packet_timeout, out, events, alphabet, addresses,
      others, before, returned, triggers>>

---------------------------------------------------------------------------
(* Bounds and input alphabets *)

MaxEvents == 3

\* the data bytes of a capture: '\n' with 'A', 'B', or '\n' with 'H', 'i'
DataBytesAB == {10, 65, 66}
DataBytesHi == {10, 72, 105}
\* a capture of two letters, to leave room for other inputs
DataBytesA == {10, 65}
\* the I2C address 0x50
AddressBytes == {80}
\* the I2C addresses 0x50 and 0x51
AddressBytesTwo == {80, 81}
\* the frame.data dicts of SPI "result" frames: both sides, or MOSI alone
SpiPayloads ==
    { [k \in {"mosi", "miso"} |-> IF k = "mosi" THEN <<16>> ELSE <<32>>],
      [k \in {"mosi"} |-> <<16>>] }
\* frame types decode has no branch for (the SPI analyzer's enable/disable)
OtherTypes == {"enable"}
\* the same, and "data": a data frame whose data dict has no 'data' key
OtherTypesAndBareData == {"enable", "data"}
\* <<gap, duration>> in microseconds: gap from the previous frame's start_time
\* to this frame's, duration from this frame's start_time to its end_time.
\* After a frame of duration 1 a gap of 501 leaves exactly the timeout between
\* the frames; after a frame of duration 0 it leaves one microsecond more.
Timings == {<<0, 1>>, <<501, 0>>, <<1000, 0>>}
DelimiterSettings == {"None", "New Line [\\n]"}
DisplayFormatSettings == {"ASCII", "HEX"}
PacketTimeouts == {500}
\* the setting left at zero, and a negative one
PacketTimeoutsUnset == {-1, 0, 500}

---------------------------------------------------------------------------
(* Python built-ins used by the analyzer *)

\* the absent accumulator
None == [type |-> "None"]

\* chr(value): the one-character string with that code point
chr(value) == <<value>>

\* code point of an upper-case hexadecimal digit
UpperDigit(d) == IF d < 10 THEN 48 + d ELSE 55 + d

\* code point of a lower-case hexadecimal digit
LowerDigit(d) == IF d < 10 THEN 48 + d ELSE 87 + d

RECURSIVE UpperDigits(_)
UpperDigits(n) ==
    IF n < 16 THEN <<UpperDigit(n)>>
    ELSE UpperDigits(n \div 16) \o <<UpperDigit(n % 16)>>

RECURSIVE LowerDigits(_)
LowerDigits(n) ==
    IF n < 16 THEN <<LowerDigit(n)>>
    ELSE LowerDigits(n \div 16) \o <<LowerDigit(n % 16)>>

\* format(value, 'X'): upper-case hex without the padding
format02X_unpadded(value) == UpperDigits(value)

\* format(value, '02X'): upper-case hex, zero-padded to two digits
format02X(value) ==
    LET ds == UpperDigits(value)
    IN  IF Len(ds) < 2 THEN <<48>> \o ds ELSE ds

\* hex(value): "0x" and the lower-case digits, not padded
hex(value) == <<48, 120>> \o LowerDigits(value)

\* string literals of the source
EMPTY == <<>>
SPACE == <<32>>
UNKNOWN_ERROR == <<117, 110, 107, 110, 111, 119, 110, 32, 101, 114, 114, 111, 114>>
ADDRESS_LABEL == <<97, 100, 100, 114, 101, 115, 115, 58, 32>>
ADDRESS_END == <<59, 32>>
MOSI_LABEL == <<77, 79, 83, 73, 58, 32>>
MISO_LABEL == <<32, 77, 73, 83, 79, 58, 32>>

---------------------------------------------------------------------------
(* Settings *)

DELIMITER_CHOICES ==
    [k \in {"None", "New Line [\\n]", "Null [\\0]", "Space [' ']", "Semicolon [;]", "Tab [\\t]"} |->
        CASE k = "None" -> EMPTY
          [] k = "New Line [\\n]" -> <<10>>
          [] k = "Null [\\0]" -> <<0>>
          [] k = "Space [' ']" -> <<32>>
          [] k = "Semicolon [;]" -> <<59>>
          [] k = "Tab [\\t]" -> <<9>>]

DISPLAY_FORMAT_CHOICES ==
    [k \in {"ASCII", "HEX"} |-> IF k = "ASCII" THEN "ascii" ELSE "hex"]

\* dict.get(key, default)
DelimiterOf(setting) ==
    IF setting \in DOMAIN DELIMITER_CHOICES THEN DELIMITER_CHOICES[setting] ELSE <<10>>

DisplayFormatOf(setting) ==
    IF setting \in DOMAIN DISPLAY_FORMAT_CHOICES THEN DISPLAY_FORMAT_CHOICES[setting] ELSE "hex"

\* the fallback of maximum_delay, 0.5E-3 s, in microseconds
DefaultDelay == 500

\* maximum_delay without the "or 0.5E-3"
maximum_delay_no_fallback == packet_timeout

\* maximum_delay, in microseconds: packet_timeout * 0.000001 or 0.5E-3
maximum_delay == IF packet_timeout # 0 THEN packet_timeout ELSE DefaultDelay

---------------------------------------------------------------------------
(* The accumulator *)

DataKeys == {"address", "str", "hex", "mosi_str", "mosi_hex", "miso_str", "miso_hex"}

clear_stored_message(frame) ==
    [type |-> "message",
     start_time |-> frame.start_time,
     end_time |-> frame.end_time,
     data |-> [k \in DataKeys |-> EMPTY]]

\* append with "else" for the second "if"
append_else_spi(tf, dataType, char, hexVal, mosiChar, mosiHexVal, misoChar, misoHexVal) ==
    LET d0 == tf.data
    IN  IF dataType = "onedir"
        THEN [tf EXCEPT !.data = [d0 EXCEPT !["str"] = @ \o char,
                                            !["hex"] = @ \o hexVal \o SPACE]]
        ELSE [tf EXCEPT !.data = [d0 EXCEPT !["mosi_str"] = @ \o mosiChar,
                                            !["mosi_hex"] = @ \o mosiHexVal \o SPACE,
                                            !["miso_str"] = @ \o misoChar,
                                            !["miso_hex"] = @ \o misoHexVal \o SPACE]]

append(tf, dataType, char, hexVal, mosiChar, mosiHexVal, misoChar, misoHexVal) ==
    LET d0 == tf.data
        d1 == IF dataType = "onedir"
              THEN [d0 EXCEPT !["str"] = @ \o char,
                              !["hex"] = @ \o hexVal \o SPACE]
              ELSE d0
        d2 == IF dataType = "spi"
              THEN [d1 EXCEPT !["mosi_str"] = @ \o mosiChar,
                              !["mosi_hex"] = @ \o mosiHexVal \o SPACE,
                              !["miso_str"] = @ \o misoChar,
                              !["miso_hex"] = @ \o misoHexVal \o SPACE]
              ELSE d1
    IN  [tf EXCEPT !.data = d2]

remove_empty_fields(frame) ==
    [frame EXCEPT !.data = [k \in {x \in DOMAIN frame.data : frame.data[x] # EMPTY} |-> frame.data[k]]]

\* format_bar_text adding the duplex part only when both sides are non-empty
format_bar_text_both_sides(frame) ==
    LET d == frame.data
        inHex ==
            (IF d["address"] # EMPTY THEN ADDRESS_LABEL \o d["address"] \o ADDRESS_END ELSE EMPTY)
            \o (IF d["hex"] # EMPTY THEN d["hex"] ELSE EMPTY)
            \o (IF d["mosi_hex"] # EMPTY /\ d["miso_hex"] # EMPTY
                THEN MOSI_LABEL \o d["mosi_hex"] \o MISO_LABEL \o d["miso_hex"] ELSE EMPTY)
        inStr ==
            (IF d["address"] # EMPTY THEN ADDRESS_LABEL \o d["address"] \o ADDRESS_END ELSE EMPTY)
            \o (IF d["str"] # EMPTY THEN d["str"] ELSE EMPTY)
            \o (IF d["mosi_str"] # EMPTY /\ d["miso_str"] # EMPTY
                THEN MOSI_LABEL \o d["mosi_str"] \o MISO_LABEL \o d["miso_str"] ELSE EMPTY)
        formatted == IF display_format = "hex" THEN inHex ELSE inStr
    IN  [frame EXCEPT !.data =
            [k \in DOMAIN d \cup {"formatted"} |-> IF k = "formatted" THEN formatted ELSE d[k]]]

format_bar_text(frame) ==
    LET d == frame.data
        inHex ==
            (IF d["address"] # EMPTY THEN ADDRESS_LABEL \o d["address"] \o ADDRESS_END ELSE EMPTY)
            \o (IF d["hex"] # EMPTY THEN d["hex"] ELSE EMPTY)
            \o (IF d["mosi_hex"] # EMPTY \/ d["miso_hex"] # EMPTY
                THEN MOSI_LABEL \o d["mosi_hex"] \o MISO_LABEL \o d["miso_hex"] ELSE EMPTY)
        inStr ==
            (IF d["address"] # EMPTY THEN ADDRESS_LABEL \o d["address"] \o ADDRESS_END ELSE EMPTY)
            \o (IF d["str"] # EMPTY THEN d["str"] ELSE EMPTY)
            \o (IF d["mosi_str"] # EMPTY \/ d["miso_str"] # EMPTY
                THEN MOSI_LABEL \o d["mosi_str"] \o MISO_LABEL \o d["miso_str"] ELSE EMPTY)
        formatted == IF display_format = "hex" THEN inHex ELSE inStr
    IN  [frame EXCEPT !.data =
            [k \in DOMAIN d \cup {"formatted"} |-> IF k = "formatted" THEN formatted ELSE d[k]]]

have_existing_message(tf) ==
    IF tf = None THEN FALSE
    ELSE IF Len(tf.data["str"]) = 0 THEN FALSE
    ELSE TRUE

\* update_end_time assigning the wrong field of the stored frame
update_end_time_wrong_field(tf, frame) == [tf EXCEPT !.start_time = frame.end_time]

update_end_time(tf, frame) == [tf EXCEPT !.end_time = frame.end_time]

\* ret = format_bar_text(ret); ret = remove_empty_fields(ret); return ret
Finish(ret) == <<remove_empty_fields(format_bar_text(ret))>>

---------------------------------------------------------------------------
(* decode: the accumulator it leaves and the frames it returns *)

\* the timeout test with <= for <
TimedOut_inclusive(tf, frame) == tf.end_time + maximum_delay <= frame.start_time

\* the timeout test of decode
TimedOut(tf, frame) == tf.end_time + maximum_delay < frame.start_time

\* what decode extracts from the frame before any rule applies
Classify(frame) ==
    LET isData == frame.type = "data" /\ "data" \in DOMAIN frame.data
        isSpi == frame.type = "result"
        hasMiso == "miso" \in DOMAIN frame.data
        hasMosi == "mosi" \in DOMAIN frame.data
    IN  [dataType |-> IF isSpi THEN "spi" ELSE IF isData THEN "onedir" ELSE "none",
         char |-> IF isData THEN chr(frame.data["data"][1]) ELSE UNKNOWN_ERROR,
         hexVal |-> IF isData THEN format02X(frame.data["data"][1]) ELSE UNKNOWN_ERROR,
         mosiChar |-> IF ~isSpi THEN UNKNOWN_ERROR
                      ELSE IF hasMosi THEN chr(frame.data["mosi"][1]) ELSE EMPTY,
         mosiHexVal |-> IF ~isSpi THEN UNKNOWN_ERROR
                        ELSE IF hasMosi THEN format02X(frame.data["mosi"][1]) ELSE EMPTY,
         misoChar |-> IF ~isSpi THEN UNKNOWN_ERROR
                      ELSE IF hasMiso THEN chr(frame.data["miso"][1]) ELSE EMPTY,
         misoHexVal |-> IF ~isSpi THEN UNKNOWN_ERROR
                        ELSE IF hasMiso THEN format02X(frame.data["miso"][1]) ELSE EMPTY]

\* self.append(dataType, char, hexVal, mosiChar, mosiHexVal, misoChar, misoHexVal)
AppendFields(tf, c) ==
    append(tf, c.dataType, c.char, c.hexVal, c.mosiChar, c.mosiHexVal, c.misoChar, c.misoHexVal)

\* the I2C address branch leaving an address already set alone
OnAddress_keep_first(tf, frame) ==
    LET value == frame.data["address"][1]
    IN  IF have_existing_message(tf) = TRUE
        THEN [temp_frame |-> [clear_stored_message(frame) EXCEPT !.data["address"] = hex(value)],
              ret |-> Finish(tf)]
        ELSE IF tf.data["address"] # EMPTY
        THEN [temp_frame |-> tf, ret |-> <<>>]
        ELSE [temp_frame |-> [tf EXCEPT !.data["address"] = hex(value)],
              ret |-> <<>>]

\* the I2C address branch
OnAddress(tf, frame) ==
    LET value == frame.data["address"][1]
    IN  IF have_existing_message(tf) = TRUE
        THEN [temp_frame |-> [clear_stored_message(frame) EXCEPT !.data["address"] = hex(value)],
              ret |-> Finish(tf)]
        ELSE [temp_frame |-> [tf EXCEPT !.data["address"] = hex(value)],
              ret |-> <<>>]

\* the I2C stop branch
OnStop(tf) ==
    IF have_existing_message(tf) = TRUE
    THEN [temp_frame |-> None, ret |-> Finish(tf)]
    ELSE [temp_frame |-> None, ret |-> <<>>]

\* the timeout branch appending the frame's bytes before committing
OnTimeout_late(tf, frame, c) ==
    [temp_frame |-> clear_stored_message(frame),
     ret |-> Finish(AppendFields(tf, c))]

\* the timeout branch also committing the new frame when its byte is a delimiter
OnTimeout_both(tf, frame, c) ==
    LET next == AppendFields(clear_stored_message(frame), c)
    IN  IF delimiter # EMPTY /\ c.char = delimiter
        THEN [temp_frame |-> None, ret |-> Finish(tf) \o Finish(next)]
        ELSE [temp_frame |-> next, ret |-> Finish(tf)]

\* the timeout branch: commit the stored frame, start the next with this frame's bytes
OnTimeout(tf, frame, c) ==
    [temp_frame |-> AppendFields(clear_stored_message(frame), c),
     ret |-> Finish(tf)]

\* the delimiter branch committing the message without the delimiter byte
OnAppend_exclusive(tf, frame, c) ==
    LET delimiters == IF delimiter = EMPTY THEN {} ELSE {delimiter}
        appended == update_end_time(AppendFields(tf, c), frame)
    IN  IF delimiters # {} /\ c.char \in delimiters
        THEN [temp_frame |-> None, ret |-> Finish(update_end_time(tf, frame))]
        ELSE [temp_frame |-> appended, ret |-> <<>>]

\* append, advance the end time, and commit if the character is a delimiter
OnAppend(tf, frame, c) ==
    LET delimiters == IF delimiter = EMPTY THEN {} ELSE {delimiter}
        appended == update_end_time(AppendFields(tf, c), frame)
    IN  IF delimiters # {} /\ c.char \in delimiters
        THEN [temp_frame |-> None, ret |-> Finish(appended)]
        ELSE [temp_frame |-> appended, ret |-> <<>>]

\* decode without the return of the start branch
decode_start_falls_through(tf0, frame) ==
    LET first_frame == tf0 = None
        tf == IF first_frame THEN clear_stored_message(frame) ELSE tf0
        c == Classify(frame)
    IN  IF frame.type = "address" THEN OnAddress(tf, frame)
        ELSE IF frame.type = "stop" THEN OnStop(tf)
        ELSE IF first_frame = FALSE /\ tf # None /\ TimedOut(tf, frame)
             THEN OnTimeout(tf, frame, c)
        ELSE OnAppend(tf, frame, c)

decode(tf0, frame) ==
    LET first_frame == tf0 = None
        tf == IF first_frame THEN clear_stored_message(frame) ELSE tf0
        c == Classify(frame)
    IN  IF frame.type = "address" THEN OnAddress(tf, frame)
        ELSE IF frame.type = "start" THEN [temp_frame |-> tf, ret |-> <<>>]
        ELSE IF frame.type = "stop" THEN OnStop(tf)
        ELSE IF first_frame = FALSE /\ tf # None /\ TimedOut(tf, frame)
             THEN OnTimeout(tf, frame, c)
        ELSE OnAppend(tf, frame, c)

---------------------------------------------------------------------------
(* The event stream *)

\* start_time of the latest frame: the upstream analyzer emits frames in time order
Clock == IF events = <<>> THEN 0 ELSE events[Len(events)].start_time

Frame(type, timing, data) ==
    [type |-> type,
     start_time |-> Clock + timing[1],
     end_time |-> Clock + timing[1] + timing[2],
     data |-> data]

\* Observers for the properties below; decode reads neither.
\* Content as the specification counts it: any text absorbed, in either shape.
HoldsContent(tf) ==
    /\ tf # None
    /\ \/ tf.data["str"] # EMPTY
       \/ tf.data["mosi_str"] # EMPTY
       \/ tf.data["miso_str"] # EMPTY

\* the events the specification names flush-triggering, judged before decode runs
IsTrigger(tf, frame) ==
    \/ frame.type = "stop" /\ HoldsContent(tf)
    \/ frame.type = "address" /\ HoldsContent(tf)
    \/ /\ frame.type \notin {"stop", "address", "start"}
       /\ \/ tf # None /\ frame.start_time - tf.end_time > maximum_delay
          \/ /\ frame.type = "data"
             /\ "data" \in DOMAIN frame.data
             /\ delimiter # EMPTY
             /\ chr(frame.data["data"][1]) = delimiter

Decode(frame) ==
    /\ Len(events) < MaxEvents
    /\ LET r == decode(temp_frame, frame)
       IN  /\ temp_frame' = r.temp_frame
           /\ out' = out \o r.ret
           /\ returned' = r.ret
    /\ before' = temp_frame
    /\ events' = Append(events, frame)
    /\ triggers' = IF IsTrigger(temp_frame, frame) THEN triggers + 1 ELSE triggers
    /\ UNCHANGED <<delimiter, display_format, packet_timeout, alphabet, addresses, others>>

DecodeData ==
    \E b \in alphabet, t \in Timings :
        Decode(Frame("data", t, [k \in {"data"} |-> <<b>>]))

DecodeAddress ==
    \E a \in addresses, t \in Timings :
        Decode(Frame("address", t, [k \in {"address"} |-> <<a>>]))

DecodeStart ==
    \E t \in Timings :
        Decode(Frame("start", t, <<>>))

DecodeStop ==
    \E t \in Timings :
        Decode(Frame("stop", t, <<>>))

DecodeResult ==
    \E p \in SpiPayloads, t \in Timings :
        Decode(Frame("result", t, p))

DecodeOther ==
    \E ty \in others, t \in Timings :
        Decode(Frame(ty, t, <<>>))

\* the state after __init__, but for the packet timeout
Fresh ==
    /\ temp_frame = None
    /\ \E s \in DelimiterSettings : delimiter = DelimiterOf(s)
    /\ \E s \in DisplayFormatSettings : display_format = DisplayFormatOf(s)
    /\ out = <<>>
    /\ events = <<>>
    /\ before = None
    /\ returned = <<>>
    /\ triggers = 0

\* the state after __init__
Constructed == Fresh /\ packet_timeout \in PacketTimeouts

\* the frames of the usual capture, but for the data bytes
UsualFrames == addresses = AddressBytes /\ others = OtherTypes

Init == Constructed /\ alphabet = DataBytesAB /\ UsualFrames

InitHi == Constructed /\ alphabet = DataBytesHi /\ UsualFrames

\* a capture with two I2C addresses and data frames without a value
InitI2C ==
    /\ Constructed
    /\ alphabet = DataBytesA
    /\ addresses = AddressBytesTwo
    /\ others = OtherTypesAndBareData

\* the packet timeout zero or negative as well; HEX display
InitUnset ==
    /\ Fresh
    /\ display_format = "hex"
    /\ packet_timeout \in PacketTimeoutsUnset
    /\ alphabet = DataBytesA
    /\ UsualFrames

Next ==
    \/ DecodeData
    \/ DecodeAddress
    \/ DecodeStart
    \/ DecodeStop
    \/ DecodeResult
    \/ DecodeOther

Spec == Init /\ [][Next]_vars

SpecHi == InitHi /\ [][Next]_vars

SpecI2C == InitI2C /\ [][Next]_vars

SpecUnset == InitUnset /\ [][Next]_vars

---------------------------------------------------------------------------
(* Vocabulary of the properties *)

\* the latest frame handed to decode
Last == events[Len(events)]

Called == events # <<>>

IsByte(e) == e.type = "data" /\ "data" \in DOMAIN e.data

IsDuplex(e) == e.type = "result"

\* the text a frame contributes to a content field
Contribution(e, key) ==
    CASE key = "str" /\ IsByte(e) -> <<e.data["data"][1]>>
      [] key = "mosi_str" /\ IsDuplex(e) /\ "mosi" \in DOMAIN e.data -> <<e.data["mosi"][1]>>
      [] key = "miso_str" /\ IsDuplex(e) /\ "miso" \in DOMAIN e.data -> <<e.data["miso"][1]>>
      [] OTHER -> <<>>

RECURSIVE Absorbed(_, _)
\* everything the frames es contributed to a content field, in arrival order
Absorbed(es, key) ==
    IF es = <<>> THEN <<>>
    ELSE Absorbed(SubSeq(es, 1, Len(es) - 1), key) \o Contribution(es[Len(es)], key)

\* a field of a frame's data, empty when the field was filtered out or the frame is absent
Field(f, key) ==
    IF f = None THEN <<>>
    ELSE IF key \in DOMAIN f.data THEN f.data[key] ELSE <<>>

RECURSIVE Emitted(_, _)
\* a content field over the emitted records rs, in emission order
Emitted(rs, key) ==
    IF rs = <<>> THEN <<>>
    ELSE Emitted(SubSeq(rs, 1, Len(rs) - 1), key) \o Field(rs[Len(rs)], key)

ContentKeys == {"str", "mosi_str", "miso_str"}

\* no frame but the first came later than the timeout after its predecessor's end
NoTimeoutHit ==
    \A i \in 2..Len(events) :
        events[i].start_time <= events[i - 1].end_time + maximum_delay

\* the bytes of the data frames in es
ByteValues(es) == Absorbed(es, "str")

---------------------------------------------------------------------------
(* C1 *)

\* C1: every byte absorbed from a ByteEvent or DuplexEvent appears exactly
\* once, in arrival order, in the content fields of the emitted records
\* followed by the current accumulator.
C1_NothingLost ==
    \A key \in ContentKeys :
        Emitted(out, key) \o Field(temp_frame, key) = Absorbed(events, key)

---------------------------------------------------------------------------
(* C2 *)

\* C2: a StopEvent emits a record whenever the accumulator holds content,
\* single-direction or duplex, and leaves no accumulator; one DuplexEvent
\* (outbound 0x10, inbound 0x20) followed by a stop yields exactly one
\* record carrying MOSI 10 and MISO 20.
C2_StopFlushes ==
    (Called /\ Last.type = "stop") =>
        /\ temp_frame = None
        /\ HoldsContent(before) => Len(returned) = 1
        /\ ( /\ Len(events) = 2
             /\ IsDuplex(events[1])
             /\ Absorbed(events, "mosi_str") = <<16>>
             /\ Absorbed(events, "miso_str") = <<32>> )
           => /\ Len(out) = 1
              /\ Field(out[1], "mosi_hex") = <<49, 48, 32>>
              /\ Field(out[1], "miso_hex") = <<50, 48, 32>>

---------------------------------------------------------------------------
(* C3 *)

IsDelimiterByte(e) ==
    /\ IsByte(e)
    /\ delimiter # EMPTY
    /\ <<e.data["data"][1]>> = delimiter

\* C3: when a delimiter is configured and a ByteEvent carrying it is
\* processed, that call emits a record and leaves no accumulator, whichever
\* earlier rule also applies to the event.
C3_DelimiterAlwaysFlushes ==
    (Called /\ IsDelimiterByte(Last)) =>
        /\ Len(returned) = 1
        /\ temp_frame = None

---------------------------------------------------------------------------
(* C4 *)

\* the stream is data frames only, within the timeout of each other, and
\* its last byte is the first occurrence of the delimiter '\n'
OneDelimitedMessage ==
    /\ Called
    /\ delimiter = <<10>>
    /\ display_format = "ascii"
    /\ \A i \in 1..Len(events) : IsByte(events[i])
    /\ NoTimeoutHit
    /\ \A i \in 1..Len(events) : (events[i].data["data"][1] = 10) <=> (i = Len(events))

\* the events 'H', 'i', '\n'
ScenarioHi == OneDelimitedMessage /\ ByteValues(events) = <<72, 105, 10>>

\* C4 as stated: 'H','i','\n' with delimiter '\n', ASCII display and no
\* timeout produce exactly one record whose formatted text is "Hi", and the
\* accumulator is reset.
C4_FormattedIsHi ==
    ScenarioHi =>
        /\ Len(out) = 1
        /\ Field(out[1], "formatted") = <<72, 105>>
        /\ temp_frame = None

\* C4 amended: 'H','i','\n' produce exactly one record whose formatted text
\* is "Hi\n", the delimiter byte included, and the accumulator is reset; in
\* general the record of a delimiter flush renders the bytes of the message
\* with the delimiter as its last character.
C4_FormattedKeepsDelimiter ==
    OneDelimitedMessage =>
        /\ Len(out) = 1
        /\ Field(out[1], "formatted") = ByteValues(events)
        /\ Field(out[1], "str") = ByteValues(events)
        /\ temp_frame = None

C4_Witness ==
    /\ ScenarioHi
    /\ Len(out) = 1
    /\ Field(out[1], "formatted") = <<72, 105, 10>>

---------------------------------------------------------------------------
(* C5 *)

\* C5: on an AddressEvent, an accumulator holding content is emitted as one
\* record with that content and the old address, and the new accumulator
\* has the event's address and no content; an accumulator holding no
\* content emits nothing and only has its address set.
C5_AddressRule ==
    (Called /\ Last.type = "address") =>
        LET a == hex(Last.data["address"][1])
        IN  /\ Field(temp_frame, "address") = a
            /\ \A key \in ContentKeys : Field(temp_frame, key) = <<>>
            /\ IF HoldsContent(before)
               THEN /\ Len(returned) = 1
                    /\ Field(returned[1], "address") = Field(before, "address")
                    /\ \A key \in ContentKeys : Field(returned[1], key) = Field(before, key)
               ELSE returned = <<>>

---------------------------------------------------------------------------
(* C6 *)

BytesBearing(e) == IsByte(e) \/ IsDuplex(e)

\* C6: for a byte-bearing event that is not the first of its accumulator, a
\* gap from the accumulator's end time strictly greater than the timeout
\* flushes the accumulator before the bytes are appended; a gap equal to the
\* timeout, or smaller, appends the bytes to the same accumulator.
C6_TimeoutBoundary ==
    (Called /\ BytesBearing(Last) /\ before # None) =>
        IF Last.start_time - before.end_time > maximum_delay
        THEN /\ Len(returned) = 1
             /\ returned[1].start_time = before.start_time
             /\ \A key \in ContentKeys : Field(returned[1], key) = Field(before, key)
             /\ temp_frame # None
             /\ temp_frame.start_time = Last.start_time
        ELSE LET holder == IF temp_frame = None THEN returned[1] ELSE temp_frame
             IN  /\ Len(returned) = (IF temp_frame = None THEN 1 ELSE 0)
                 /\ holder.start_time = before.start_time
                 /\ \A key \in ContentKeys :
                        Field(holder, key) = Field(before, key) \o Contribution(Last, key)

\* a byte exactly the timeout after its predecessor joined it, and the next
\* byte, one microsecond more than the timeout later, flushed both
C6_Witness ==
    /\ Len(events) = 3
    /\ \A i \in 1..3 : IsByte(events[i])
    /\ events[2].start_time - events[1].end_time = maximum_delay
    /\ events[3].start_time - events[2].end_time = maximum_delay + 1
    /\ Len(out) = 1
    /\ Len(Field(out[1], "str")) = 2
    /\ Len(Field(temp_frame, "str")) = 1

---------------------------------------------------------------------------
(* C7 *)

TimeoutFired ==
    /\ Called
    /\ Last.type \notin {"address", "start", "stop"}
    /\ before # None
    /\ Last.start_time - before.end_time > maximum_delay

\* when the timeout rule fires the record holds only what was absorbed
\* before the triggering event, whose bytes are all the new accumulator
\* holds, and the new accumulator's span starts at that event
TimeoutSplits ==
    TimeoutFired =>
        /\ Len(returned) = 1
        /\ \A key \in ContentKeys : Field(returned[1], key) = Field(before, key)
        /\ temp_frame # None
        /\ \A key \in ContentKeys : Field(temp_frame, key) = Contribution(Last, key)
        /\ temp_frame.start_time = Last.start_time

\* byte 'A' at t=0, then byte 'B' at t=1000us, with a timeout of 500us
ScenarioAB ==
    /\ Len(events) = 2
    /\ ByteValues(events) = <<65, 66>>
    /\ events[1].start_time = 0
    /\ events[2].start_time = 1000
    /\ packet_timeout = 500

\* C7 as stated: the timeout rule splits as above, and 'A' at t=0 then 'B'
\* at t=1000us with timeout 500us yields two records, the first holding
\* only 'A'.
C7_TwoRecords ==
    /\ TimeoutSplits
    /\ ScenarioAB => (Len(out) = 2 /\ Field(out[1], "str") = <<65>>)

\* C7 amended: the timeout rule splits as above, and 'A' at t=0 then 'B' at
\* t=1000us with timeout 500us yields one record, holding only 'A', while
\* 'B' is the only content of the new accumulator.
C7_OneRecordOnePending ==
    /\ TimeoutSplits
    /\ ScenarioAB =>
        /\ Len(out) = 1
        /\ Field(out[1], "str") = <<65>>
        /\ Field(temp_frame, "str") = <<66>>

C7_Witness ==
    /\ ScenarioAB
    /\ TimeoutFired
    /\ Len(out) = 1
    /\ temp_frame # None

---------------------------------------------------------------------------
(* C8 *)

\* C8: the number of records emitted equals the number of flush-triggering
\* events seen (stop with content, address-repeat with content, timeout
\* exceeded, delimiter match).
C8_RecordsEqualTriggers == Len(out) = triggers

---------------------------------------------------------------------------
(* C9 *)

\* C9: each call of decode emits zero or one record, also when it flushes
\* and starts a new accumulator in the same call.
C9_AtMostOneRecord ==
    /\ Len(returned) <= 1
    /\ Len(out) <= Len(events)

\* a call that flushed and started a new accumulator with content
C9_Witness ==
    /\ Len(returned) = 1
    /\ HoldsContent(temp_frame)

---------------------------------------------------------------------------
(* C10 *)

\* the premise of C10, which Frame guarantees
EventsInOrder ==
    /\ \A i \in 1..Len(events) : events[i].start_time <= events[i].end_time
    /\ \A i \in 2..Len(events) : events[i - 1].start_time <= events[i].start_time

\* C10: for events with start_time <= end_time in non-decreasing start_time
\* order, every record has span start <= span end and starts no earlier than
\* any record emitted before it.
C10_SpansInOrder ==
    EventsInOrder =>
        /\ \A i \in 1..Len(out) : out[i].start_time <= out[i].end_time
        /\ \A i \in 2..Len(out) : out[i - 1].start_time <= out[i].start_time

\* two records, the second starting later, its span covering two frames
C10_Witness ==
    /\ Len(out) = 2
    /\ out[1].start_time < out[2].start_time
    /\ out[2].start_time < out[2].end_time

---------------------------------------------------------------------------
(* C11 *)

\* sub occurs in s
Contains(s, sub) ==
    \E i \in 1..(Len(s) - Len(sub) + 1) : SubSeq(s, i, i + Len(sub) - 1) = sub

\* "address:" and "MOSI"
ADDRESS_WORD == <<97, 100, 100, 114, 101, 115, 115, 58>>
MOSI_WORD == <<77, 79, 83, 73>>

\* the fields the display format selects: hex fields in HEX mode, text fields in ASCII mode
Shown(r, hexKey, strKey) ==
    IF display_format = "hex" THEN Field(r, hexKey) ELSE Field(r, strKey)

\* the formatted text the record's own fields call for
Rendering(r) ==
    LET address == Field(r, "address")
        single == Shown(r, "hex", "str")
        outbound == Shown(r, "mosi_hex", "mosi_str")
        inbound == Shown(r, "miso_hex", "miso_str")
    IN  (IF address # <<>> THEN <<97, 100, 100, 114, 101, 115, 115, 58, 32>> \o address \o <<59, 32>>
         ELSE <<>>)
        \o single
        \o (IF outbound # <<>> \/ inbound # <<>>
            THEN <<77, 79, 83, 73, 58, 32>> \o outbound \o <<32, 77, 73, 83, 79, 58, 32>> \o inbound
            ELSE <<>>)

NoAddressNoDuplex(r) ==
    \A key \in {"address", "mosi_str", "mosi_hex", "miso_str", "miso_hex"} : Field(r, key) = <<>>

---------------------------------------------------------------------------
(* C12 *)

\* the latest frame reached the timeout test of an accumulator it did not create
TimeoutRuleRan ==
    /\ Called
    /\ Last.type \notin {"address", "start", "stop"}
    /\ before # None

\* the call committed the stored frame and started the next one
FlushedByTimeout == Len(returned) = 1 /\ temp_frame # None

\* the timeout rule fires exactly on gaps greater than timeout
TimeoutRuleUses(timeout) ==
    TimeoutRuleRan =>
        (FlushedByTimeout <=> Last.start_time - before.end_time > timeout)

---------------------------------------------------------------------------
(* C13 *)

\* the latest call found an accumulator whose address was set
AddressWasSet == Called /\ before # None /\ Field(before, "address") # <<>>

\* the latest call flushed the accumulator or reset the state
LifetimeEnded == temp_frame = None \/ Len(returned) = 1

\* "0x50" and "0x51"
AddressText(a) == IF a = 80 THEN <<48, 120, 53, 48>> ELSE <<48, 120, 53, 49>>

\* C13 as stated: within one accumulator lifetime, once the address is
\* non-empty no event changes it; an AddressEvent finds the address unset or
\* has the accumulator flushed and replaced.
C13_AddressNeverOverwritten ==
    AddressWasSet =>
        \/ LifetimeEnded
        \/ Field(temp_frame, "address") = Field(before, "address")

\* C13 amended: within one accumulator lifetime no event but an AddressEvent
\* changes a non-empty address; an AddressEvent that finds single-direction
\* text has the accumulator flushed and replaced, and one that finds none
\* overwrites the address of the same accumulator, set or not.
C13_OnlyAddressEventsOverwrite ==
    AddressWasSet =>
        IF Last.type = "address"
        THEN IF Field(before, "str") # <<>>
             THEN /\ Len(returned) = 1
                  /\ temp_frame # None
                  /\ temp_frame.start_time = Last.start_time
                  /\ Field(temp_frame, "address") = AddressText(Last.data["address"][1])
             ELSE /\ returned = <<>>
                  /\ temp_frame =
                        [before EXCEPT !.data["address"] = AddressText(Last.data["address"][1])]
        ELSE \/ LifetimeEnded
             \/ Field(temp_frame, "address") = Field(before, "address")

\* address 0x50 overwritten by address 0x51 in the same accumulator
C13_Witness ==
    /\ AddressWasSet
    /\ Last.type = "address"
    /\ returned = <<>>
    /\ temp_frame # None
    /\ temp_frame.start_time = before.start_time
    /\ Field(before, "address") = AddressText(80)
    /\ Field(temp_frame, "address") = AddressText(81)

---------------------------------------------------------------------------
(* C14 *)

\* C14: a StartEvent emits no record and leaves an existing accumulator's
\* address, content fields and span unchanged; the only state change it can
\* cause is creating an empty accumulator when none exists.
C14_StartIsNoOp ==
    (Called /\ Last.type = "start") =>
        /\ returned = <<>>
        /\ IF before # None
           THEN temp_frame = before
           ELSE /\ temp_frame # None
                /\ temp_frame.start_time = Last.start_time
                /\ \A key \in DataKeys : Field(temp_frame, key) = <<>>

\* a start frame later than the timeout after an accumulator with an address
\* and content, which it left as it was
C14_Witness ==
    /\ Called
    /\ Last.type = "start"
    /\ HoldsContent(before)
    /\ Field(before, "address") # <<>>
    /\ Last.start_time - before.end_time > maximum_delay
    /\ temp_frame = before
    /\ out = <<>>

---------------------------------------------------------------------------
(* C15 *)

\* a field of the accumulator the latest frame was appended to, as it was
\* before the append: the stored frame, or an empty one when the call
\* started a new accumulator
FieldBefore(key) ==
    IF before = None \/ Len(returned) = 1 THEN <<>> ELSE Field(before, key)

\* C15: absorbing a DuplexEvent changes only the duplex fields: the
\* single-direction text and hex fields and the address are unchanged, a
\* side absent from the event leaves that side's text and hex fields
\* unchanged, and a DuplexEvent never triggers the delimiter flush.
C15_DuplexTouchesOnlyItsSides ==
    (Called /\ IsDuplex(Last)) =>
        /\ temp_frame # None
        /\ \A key \in {"str", "hex", "address"} : Field(temp_frame, key) = FieldBefore(key)
        /\ "mosi" \notin DOMAIN Last.data =>
              \A key \in {"mosi_str", "mosi_hex"} : Field(temp_frame, key) = FieldBefore(key)
        /\ "miso" \notin DOMAIN Last.data =>
              \A key \in {"miso_str", "miso_hex"} : Field(temp_frame, key) = FieldBefore(key)

---------------------------------------------------------------------------
(* C16 *)

\* a frame of a type decode has no branch for, or a data frame without a value
Unrecognized(e) ==
    \/ e.type \notin {"data", "address", "start", "stop", "result"}
    \/ e.type = "data" /\ "data" \notin DOMAIN e.data

\* "unknown error"
PLACEHOLDER == <<117, 110, 107, 110, 111, 119, 110, 32, 101, 114, 114, 111, 114>>

NoPlaceholderIn(f) ==
    f # None => \A k \in DOMAIN f.data : ~Contains(f.data[k], PLACEHOLDER)

\* C16: an event of unrecognized shape contributes no content: the
\* placeholder "unknown error" never appears in a field of the accumulator
\* or of an emitted record, the accumulator's fields are what they were (or
\* empty, when the timeout rule started a new accumulator, the record then
\* holding what they were), and later events are absorbed as usual.
C16_UnrecognizedAddsNothing ==
    /\ NoPlaceholderIn(temp_frame)
    /\ \A i \in 1..Len(returned) : NoPlaceholderIn(returned[i])
    /\ (Called /\ Unrecognized(Last)) =>
        /\ temp_frame # None
        /\ \A key \in DataKeys : Field(temp_frame, key) = FieldBefore(key)
        /\ Len(returned) = 1 =>
              \A key \in DataKeys : Field(returned[1], key) = Field(before, key)

\* byte 'A', a data frame without a value, byte 'A': one accumulator, "AA"
C16_Witness ==
    /\ Len(events) = 3
    /\ IsByte(events[1])
    /\ events[2].type = "data" /\ Unrecognized(events[2])
    /\ IsByte(events[3])
    /\ out = <<>>
    /\ Field(temp_frame, "str") = <<65, 65>>
    /\ Field(temp_frame, "hex") = <<52, 49, 32, 52, 49, 32>>

---------------------------------------------------------------------------
(* C17 *)

\* C17: every record decode emits carries a non-empty formatted field and at
\* least one byte of content; an accumulator holding no content is never
\* flushed into a record.
C17_RecordsHaveContent ==
    \A i \in 1..Len(returned) :
        /\ Field(returned[i], "formatted") # <<>>
        /\ \E key \in ContentKeys : Field(returned[i], key) # <<>>

---------------------------------------------------------------------------
(* C18 *)

\* the positions of the address and stop frames before the latest frame
Boundaries == {j \in 1..(Len(events) - 1) : events[j].type \in {"address", "stop"}}

\* the latest of them
LastBoundary == CHOOSE j \in Boundaries : \A k \in Boundaries : k <= j

\* the frame holding the latest frame's byte: the accumulator, or the record
\* when the call flushed it
Holder == IF temp_frame # None THEN temp_frame ELSE returned[1]

\* C18: every single-direction data byte that arrives after an AddressEvent
\* and before the next AddressEvent or StopEvent is held in an accumulator
\* (and emitted in a record) whose address is that AddressEvent's, also when
\* the timeout rule fires between the address and the data.
C18_DataKeepsItsAddress ==
    (Called /\ IsByte(Last) /\ Boundaries # {}) =>
        (events[LastBoundary].type = "address" =>
            /\ temp_frame # None \/ Len(returned) = 1
            /\ Field(Holder, "address") = AddressText(events[LastBoundary].data["address"][1])
            /\ Field(Holder, "str") # <<>>
            /\ Field(Holder, "str")[Len(Field(Holder, "str"))] = Last.data["data"][1])

---------------------------------------------------------------------------
(* C19 *)

\* the value of an upper-case hexadecimal digit character, 16 for any other
DigitValue(ch) ==
    IF ch \in 48..57 THEN ch - 48
    ELSE IF ch \in 65..70 THEN ch - 55
    ELSE 16

\* h is two hexadecimal digits denoting the byte b, and a blank
IsTokenOf(h, b) ==
    /\ Len(h) = 3
    /\ DigitValue(h[1]) < 16
    /\ DigitValue(h[2]) < 16
    /\ DigitValue(h[1]) * 16 + DigitValue(h[2]) = b
    /\ h[3] = 32

\* the hex text h holds one token per character of the text t, in order
InLockstep(t, h) ==
    /\ Len(h) = 3 * Len(t)
    /\ \A i \in 1..Len(t) : IsTokenOf(SubSeq(h, 3 * i - 2, 3 * i), t[i])

\* the number of blanks in a text
Blanks(h) == Cardinality({i \in 1..Len(h) : h[i] = 32})

\* the hex text now is the hex text before with one piece added: a token of
\* the side's byte, or the blank alone when the frame lacks the side
ExtendedOnce(hexKey, side) ==
    LET now == Field(temp_frame, hexKey)
        was == FieldBefore(hexKey)
        piece == SubSeq(now, Len(was) + 1, Len(now))
    IN  /\ Len(now) > Len(was)
        /\ SubSeq(now, 1, Len(was)) = was
        /\ IF side \in DOMAIN Last.data
           THEN IsTokenOf(piece, Last.data[side][1])
           ELSE piece = SPACE

\* C19: in every reachable state the accumulator's single-direction hex
\* field holds exactly one two-digit token per character of its
\* single-direction text field, in the same order and denoting the same
\* bytes, and the outbound and inbound hex fields are each extended once by
\* every absorbed DuplexEvent and by no other frame.
C19_TextAndHexInLockstep ==
    /\ InLockstep(Field(temp_frame, "str"), Field(temp_frame, "hex"))
    /\ Blanks(Field(temp_frame, "mosi_hex")) = Blanks(Field(temp_frame, "miso_hex"))
    /\ (Called /\ IsDuplex(Last)) =>
           /\ temp_frame # None
           /\ ExtendedOnce("mosi_hex", "mosi")
           /\ ExtendedOnce("miso_hex", "miso")
    /\ (Called /\ ~IsDuplex(Last) /\ temp_frame # None) =>
           /\ Field(temp_frame, "mosi_hex") = FieldBefore("mosi_hex")
           /\ Field(temp_frame, "miso_hex") = FieldBefore("miso_hex")

\* an accumulator holding two bytes, one of them below 16, and a DuplexEvent
C19_Witness ==
    /\ Called
    /\ IsDuplex(Last)
    /\ Len(Field(temp_frame, "str")) = 2
    /\ \E i \in 1..2 : Field(temp_frame, "str")[i] < 16
    /\ Field(temp_frame, "mosi_hex") # <<>>

=============================================================================
